---- MODULE Spec2Model ----
(***************************************************************************)
(* State-machine model of the I2C master engine of pi-sugar (package rpio, *)
(* src/unnamed/part_000): bus begin/end, clock divider, chip select,       *)
(* polarity/phase, FIFO clearing and the busy-wait byte exchange.          *)
(*                                                                         *)
(* A 32-bit register value is modelled as the set of its set bit           *)
(* positions (a subset of 0..31): x | y is x \cup y, x & y is x \cap y and  *)
(* x &^ y is x \ y.  Bytes are the numbers 0..255.                          *)
(***************************************************************************)
EXTENDS Integers, Sequences, FiniteSets, TLC

VARIABLES
    i2cMem,     \* the memory-mapped register window: register name -> word
    heap,       \* byte slices: "caller" (the caller's slice), "local" (a slice the callee allocated)
    data,       \* the slice I2cExchange runs on (its parameter), a key of heap
    i,          \* I2cExchange's loop index
    pc,         \* position of the running call
    op,         \* the operation called last
    args,       \* its arguments
    pre,        \* the register window when it was called
    ret,        \* its return value
    log,        \* the register accesses of the running I2cExchange, in order
    pinMode,    \* mode of the GPIO pins 2 and 3
    spiMem,     \* the SPI register window I2cBegin reads the divider from
    bcm2711,    \* result of the SoC-revision probe isBCM2711()
    i2cByteWaitMicroseconds,
    ctx,        \* concurrent I2cExchange calls: execution context -> its position and locals
    txFifo,     \* bytes written to the FIFO and not yet shifted out, as <<context, index>>
    rxFifo,     \* answers waiting in the FIFO, each tagged with the write it answers
    seen,       \* the kinds of interference that have happened between concurrent calls
    piSugar,    \* the monitor's current values: temperature, voltage, charge, power
    lastMinuteCharge, lastHourCharge, lastDayCharge,
    lastMinuteVoltage, lastHourVoltage, lastDayVoltage,
    lastMinuteTemperature, lastHourTemperature, lastDayTemperature,
    counter,    \* number of Refresh calls so far
    reads       \* what the four register reads of the last Refresh returned

vars == <<i2cMem, heap, data, i, pc, op, args, pre, ret, log, pinMode, spiMem,
          bcm2711, i2cByteWaitMicroseconds, ctx, txFifo, rxFifo, seen,
          piSugar, lastMinuteCharge, lastHourCharge, lastDayCharge,
          lastMinuteVoltage, lastHourVoltage, lastDayVoltage,
          lastMinuteTemperature, lastHourTemperature, lastDayTemperature,
          counter, reads>>

(***************************************************************************)
(* Bounds of the model.                                                    *)
(***************************************************************************)
MaxLen == 16    \* longest buffer exchanged
FreeLen == 2    \* buffers up to this length are enumerated exhaustively, and
                \* the first FreeLen bytes received are chosen freely

(***************************************************************************)
(* Words and bytes.                                                        *)
(***************************************************************************)
WordBits == 0..31
Word == SUBSET WordBits

\* the word of a number below 2^31 (uint32(n))
Bits(n) == {k \in 0..30 : (n \div (2^k)) % 2 = 1}

RECURSIVE SumPow(_)
SumPow(s) == IF s = {} THEN 0
             ELSE LET k == CHOOSE x \in s : TRUE IN 2^k + SumPow(s \ {k})

\* the number of a word whose bit 31 is clear
Val(w) == SumPow(w)

\* byte(w): the low 8 bits of a word, as a number
ByteOf(w) == Val(w \cap (0..7))

(***************************************************************************)
(* Constants of the source.                                                *)
(***************************************************************************)
FIFOSize == 16
i2cClockDivider2500 == 2500

\* I2cExchange's bit masks
ta == {7}       \* transfer active
txd == {18}     \* tx fifo can accept data
rxd == {17}     \* rx fifo contains data
done == {16}
clearTxRx == {5, 4}

StatusBits == txd \cup rxd \cup done

Regs == {"csReg", "fifoReg", "clkDivReg"}

I2cMapError == "I2C registers not mapped correctly - are you root?"

(***************************************************************************)
(* Inputs.                                                                 *)
(***************************************************************************)
TxBytes == {1, 165}

\* values the hardware presents in the data FIFO; 421 = 0x1A5 has a bit above the low 8
RxValues == {Bits(0), Bits(90), Bits(421)}

\* a long buffer: distinct non-zero bytes
PatternBuf(n) == [k \in 1..n |-> ((k * 37) % 255) + 1]

\* what the hardware presents at the read of position k (0-based)
RxChoices(k) == IF k < FreeLen THEN RxValues ELSE {Bits(256 + ((k * 11) % 256))}

SeqsUpTo(S, n) == UNION {[1..m -> S] : m \in 0..n}

Buffers == SeqsUpTo(TxBytes, FreeLen) \cup {PatternBuf(n) : n \in 0..MaxLen}

Zeros(n) == [k \in 1..n |-> 0]

(***************************************************************************)
(* The log of register accesses.                                           *)
(***************************************************************************)
Ev(kind, idx, val) == [k |-> kind, i |-> idx, v |-> val]

Idle == pc \in {"idle", "returned"}

\* what the sequential operations of the engine never touch
ConcVars == <<ctx, txFifo, rxFifo, seen>>

\* the state of the battery monitor (package pi_sugar)
MonVars == <<piSugar, lastMinuteCharge, lastHourCharge, lastDayCharge,
             lastMinuteVoltage, lastHourVoltage, lastDayVoltage,
             lastMinuteTemperature, lastHourTemperature, lastDayTemperature,
             counter, reads>>

NoCallVars == <<pinMode, spiMem, bcm2711, i2cByteWaitMicroseconds, ConcVars, MonVars>>

(***************************************************************************)
(* The hardware: it drives the status bits of the control register and     *)
(* clears the clear-FIFO bits once the flush is done.                       *)
(***************************************************************************)
HwStatus ==
    /\ \E s \in SUBSET StatusBits :
          /\ s # i2cMem["csReg"] \cap StatusBits
          /\ i2cMem' = [i2cMem EXCEPT !["csReg"] = (@ \ StatusBits) \cup s]
    /\ UNCHANGED <<heap, data, i, pc, op, args, pre, ret, log, NoCallVars>>

HwFifoCleared ==
    /\ i2cMem["csReg"] \cap clearTxRx # {}
    /\ i2cMem' = [i2cMem EXCEPT !["csReg"] = @ \ clearTxRx]
    /\ UNCHANGED <<heap, data, i, pc, op, args, pre, ret, log, NoCallVars>>

(***************************************************************************)
(* I2cExchange, one action per register access.                            *)
(***************************************************************************)
Buf == heap[data]

\* the loop head "for i := range data": where the call goes with index k
LoopHead(k) == IF k < Len(Buf) THEN "waitTxd" ELSE "waitDone"

\* clearI2cTxRxFifo(): i2cMem[csReg] |= clearTxRx
clearI2cTxRxFifo ==
    /\ pc = "clearFifo"
    /\ i2cMem' = [i2cMem EXCEPT !["csReg"] = @ \cup clearTxRx]
    /\ log' = Append(log, Ev("clearFifo", 0, clearTxRx))
    /\ pc' = "setTA"
    /\ UNCHANGED <<heap, data, i, op, args, pre, ret, NoCallVars>>

\* a loop that waits for TXD before it tests the length (do-while)
SetTA_WaitsFirst ==
    /\ pc = "setTA"
    /\ i2cMem' = [i2cMem EXCEPT !["csReg"] = @ \cup ta]
    /\ log' = Append(log, Ev("setTA", 0, ta))
    /\ i' = 0
    /\ pc' = "waitTxd"
    /\ UNCHANGED <<heap, data, op, args, pre, ret, NoCallVars>>

\* i2cMem[csReg] |= ta, then the loop head
SetTA ==
    /\ pc = "setTA"
    /\ i2cMem' = [i2cMem EXCEPT !["csReg"] = @ \cup ta]
    /\ log' = Append(log, Ev("setTA", 0, ta))
    /\ i' = 0
    /\ pc' = LoopHead(0)
    /\ UNCHANGED <<heap, data, op, args, pre, ret, NoCallVars>>

\* for i2cMem[csReg]&txd == 0 {}: the loop is left when the bit is read set
WaitTxd ==
    /\ pc = "waitTxd"
    /\ i2cMem["csReg"] \cap txd # {}
    /\ log' = Append(log, Ev("txd", i, txd))
    /\ pc' = "writeFifo"
    /\ UNCHANGED <<i2cMem, heap, data, i, op, args, pre, ret, NoCallVars>>

\* sends the slot before k, which by then holds a received byte
TxByte_Previous(k) == Buf[IF k = 0 THEN 1 ELSE k]

\* the byte I2cExchange sends at index k
TxByte(k) == Buf[k + 1]

\* queues the next byte before the answer to this one was read (batching)
WriteFifo_Batched ==
    /\ pc = "writeFifo"
    /\ i2cMem' = [i2cMem EXCEPT !["fifoReg"] = Bits(Buf[i + 1])]
    /\ log' = Append(log, Ev("write", i, Bits(Buf[i + 1])))
    /\ i' = IF i + 1 < Len(Buf) THEN i + 1 ELSE i
    /\ pc' = IF i + 1 < Len(Buf) THEN "waitTxd" ELSE "waitRxd"
    /\ UNCHANGED <<heap, data, op, args, pre, ret, NoCallVars>>

\* i2cMem[fifoReg] = uint32(data[i])
WriteFifo ==
    /\ pc = "writeFifo"
    /\ i2cMem' = [i2cMem EXCEPT !["fifoReg"] = Bits(TxByte(i))]
    /\ log' = Append(log, Ev("write", i, Bits(TxByte(i))))
    /\ pc' = "waitRxd"
    /\ UNCHANGED <<heap, data, i, op, args, pre, ret, NoCallVars>>

\* for i2cMem[csReg]&rxd == 0 {}
WaitRxd ==
    /\ pc = "waitRxd"
    /\ i2cMem["csReg"] \cap rxd # {}
    /\ log' = Append(log, Ev("rxd", i, rxd))
    /\ pc' = "readFifo"
    /\ UNCHANGED <<i2cMem, heap, data, i, op, args, pre, ret, NoCallVars>>

\* the buffer after the word v was read at index k
Store(buf, k, v) == [buf EXCEPT ![k + 1] = ByteOf(v)]

\* data[i] = byte(i2cMem[fifoReg]), then i++ and the loop head
ReadFifo ==
    /\ pc = "readFifo"
    /\ \E v \in RxChoices(i) :
          /\ i2cMem' = [i2cMem EXCEPT !["fifoReg"] = v]
          /\ heap' = [heap EXCEPT ![data] = Store(@, i, v)]
          /\ log' = Append(log, Ev("read", i, v))
    /\ i' = i + 1
    /\ pc' = LoopHead(i + 1)
    /\ UNCHANGED <<data, op, args, pre, ret, NoCallVars>>

\* a wait loop that gives up although the done bit is clear
WaitDone_GivesUp ==
    /\ pc = "waitDone"
    /\ log' = Append(log, Ev("done", i, done))
    /\ pc' = "clearTA"
    /\ UNCHANGED <<i2cMem, heap, data, i, op, args, pre, ret, NoCallVars>>

\* for i2cMem[csReg]&done == 0 {}
WaitDone ==
    /\ pc = "waitDone"
    /\ i2cMem["csReg"] \cap done # {}
    /\ log' = Append(log, Ev("done", i, done))
    /\ pc' = "clearTA"
    /\ UNCHANGED <<i2cMem, heap, data, i, op, args, pre, ret, NoCallVars>>

\* returns with the transfer-active bit left set
ClearTA_KeepsBit ==
    /\ pc = "clearTA"
    /\ i2cMem' = i2cMem
    /\ log' = Append(log, Ev("clearTA", i, ta))
    /\ pc' = "return"
    /\ UNCHANGED <<heap, data, i, op, args, pre, ret, NoCallVars>>

\* i2cMem[csReg] &^= ta
ClearTA ==
    /\ pc = "clearTA"
    /\ i2cMem' = [i2cMem EXCEPT !["csReg"] = @ \ ta]
    /\ log' = Append(log, Ev("clearTA", i, ta))
    /\ pc' = "return"
    /\ UNCHANGED <<heap, data, i, op, args, pre, ret, NoCallVars>>

\* the value the running call returns
Result == IF op = "I2cReceive" THEN heap["local"] ELSE "none"

Return ==
    /\ pc = "return"
    /\ ret' = Result
    /\ pc' = "returned"
    /\ UNCHANGED <<i2cMem, heap, data, i, op, args, pre, log, NoCallVars>>

\* entry of a call that runs I2cExchange on slice d (the exchange reads the
\* registers afresh at every step, so the window at the call is not recorded)
Enter(name, a, h, d) ==
    /\ Idle
    /\ op' = name
    /\ args' = a
    /\ pre' = pre
    /\ heap' = h
    /\ data' = d
    /\ i' = 0
    /\ log' = <<>>
    /\ ret' = "none"
    /\ pc' = "clearFifo"
    /\ UNCHANGED <<i2cMem, NoCallVars>>

\* I2cExchange(data): runs on the caller's slice
I2cExchange(b) ==
    Enter("I2cExchange", <<b>>, [caller |-> b, local |-> <<>>], "caller")

\* I2cExchange(data) without the clone
I2cTransmit_NoClone(b) ==
    Enter("I2cTransmit", <<b>>, [caller |-> b, local |-> <<>>], "caller")

\* I2cTransmit(data...): I2cExchange(append(data[:0:0], data...))
I2cTransmit(b) ==
    Enter("I2cTransmit", <<b>>, [caller |-> b, local |-> b], "local")

\* make([]byte, 0, n): capacity n but length 0
I2cReceive_ZeroLen(n) ==
    Enter("I2cReceive", <<n>>, [caller |-> <<>>, local |-> <<>>], "local")

\* I2cReceive(n): data := make([]byte, n, n); I2cExchange(data); return data
I2cReceive(n) ==
    Enter("I2cReceive", <<n>>, [caller |-> <<>>, local |-> Zeros(n)], "local")

ExchangeStep ==
    \/ clearI2cTxRxFifo
    \/ SetTA
    \/ WaitTxd
    \/ WriteFifo
    \/ WaitRxd
    \/ ReadFifo
    \/ WaitDone
    \/ ClearTA
    \/ Return

(***************************************************************************)
(* The battery monitor (package pi_sugar, src/unnamed/part_001): Refresh   *)
(* reads four device registers and keeps rolling histories.  A float64 is  *)
(* modelled as the exact rational <<numerator, denominator>> in lowest     *)
(* terms; the rounding of float64 arithmetic is not modelled.              *)
(***************************************************************************)
secondsInAMinute == 60
minutesInAnHour == 60
hoursInADay == 24
numberOfDays == 7

MaxRefresh == 2     \* Refresh calls made from each starting history

RECURSIVE GCD(_, _)
GCD(a, b) == IF b = 0 THEN a ELSE GCD(b, a % b)

Abs(n) == IF n < 0 THEN -n ELSE n

\* the rational n/d, d > 0, in lowest terms
Rat(n, d) == LET g == GCD(Abs(n), d) IN <<n \div g, d \div g>>

RatAdd(x, y) ==
    LET l == (x[2] \div GCD(x[2], y[2])) * y[2]
    IN  Rat(x[1] * (l \div x[2]) + y[1] * (l \div y[2]), l)

\* table[lo] + ... + table[hi], summed by halves
RECURSIVE IntSum(_, _, _)
IntSum(table, lo, hi) ==
    IF lo > hi THEN 0
    ELSE IF lo = hi THEN table[lo]
    ELSE LET mid == (lo + hi) \div 2
         IN  IntSum(table, lo, mid) + IntSum(table, mid + 1, hi)

RECURSIVE RatSum(_, _, _)
RatSum(table, lo, hi) ==
    IF lo > hi THEN <<0, 1>>
    ELSE IF lo = hi THEN table[lo]
    ELSE LET mid == (lo + hi) \div 2
         IN  RatAdd(RatSum(table, lo, mid), RatSum(table, mid + 1, hi))

\* int(x) of a float64 x: truncation toward zero
GoInt(x) == IF x[1] >= 0 THEN x[1] \div x[2] ELSE -((-x[1]) \div x[2])

\* keeps the oldest element of a full table and drops the newest
appendInt_DropsNewest(table, value, maxSize) ==
    LET firstElement == IF Len(table) = maxSize THEN 1 ELSE 0
    IN  Append(SubSeq(table, 1, Len(table) - firstElement), value)

\* appendInt(table, value, maxSize): table = append(table[firstElement:], value)
appendInt(table, value, maxSize) ==
    LET firstElement == IF Len(table) = maxSize THEN 1 ELSE 0
    IN  Append(SubSeq(table, firstElement + 1, Len(table)), value)

\* appendFloat64(table, value, maxSize): the same on a []float64
appendFloat64(table, value, maxSize) ==
    LET firstElement == IF Len(table) = maxSize THEN 1 ELSE 0
    IN  Append(SubSeq(table, firstElement + 1, Len(table)), value)

\* avg += float64(v) for each v; return avg / float64(len(table))
avgInt(table) == Rat(IntSum(table, 1, Len(table)), Len(table))

avgFloat64(table) ==
    LET sum == RatSum(table, 1, Len(table)) IN Rat(sum[1], sum[2] * Len(table))

\* int(buf[0]) - 40
TemperatureOf(buf) == buf[1] - 40

\* float64(uint16(buf[0])<<8 | uint16(buf[1])) / 1000
VoltageOf(buf) == Rat(buf[1] * 256 + buf[2], 1000)

\* int(buf[0])
ChargeOf(buf) == buf[1]

\* buf[0]&0x80 != 0
PowerOf(buf) == buf[1] >= 128

\* what the device answers at the c-th Refresh when nothing disturbs it: the
\* readings drift from one minute to the next
Drift(c) == ((c - 1) \div secondsInAMinute) % 7

DeviceBuf(reg, c) ==
    CASE reg = "temperatureReg" -> <<60 + Drift(c)>>
      [] reg = "voltageReg" -> <<(4000 + 250 * Drift(c)) \div 256, (4000 + 250 * Drift(c)) % 256>>
      [] reg = "batteryChargeReg" -> <<50 + Drift(c)>>
      [] reg = "powerReg" -> <<IF c % 2 = 0 THEN 128 ELSE 1>>

Min(a, b) == IF a < b THEN a ELSE b

\* the value Refresh takes from the bytes read from register reg
ValueOf(reg, buf) ==
    CASE reg = "temperatureReg" -> TemperatureOf(buf)
      [] reg = "voltageReg" -> VoltageOf(buf)
      [] reg = "batteryChargeReg" -> ChargeOf(buf)

\* the average Refresh takes of the per-second history of register reg
MinuteAvg(reg, table) == IF reg = "voltageReg" THEN avgFloat64(table) ELSE avgInt(table)

\* the histories after n calls of Refresh whose reads all succeeded: the last
\* (at most 60) per-second samples, the last averages taken every 60th call
\* and the last averages of those, taken every 1440th call
MinuteTable(reg, n) ==
    LET len == Min(n, secondsInAMinute)
    IN  [k \in 1..len |-> ValueOf(reg, DeviceBuf(reg, n - len + k))]

\* (at the 60j-th call the per-second history holds 60 equal samples, whose
\* average is the average of one of them)
HourTable(reg, n) ==
    LET len == Min(n \div 60, minutesInAnHour)
    IN  [k \in 1..len |->
            MinuteAvg(reg, <<ValueOf(reg, DeviceBuf(reg, 60 * ((n \div 60) - len + k)))>>)]

DayTable(reg, n) ==
    LET len == Min(n \div 1440, numberOfDays * hoursInADay)
    IN  [k \in 1..len |-> avgFloat64(HourTable(reg, 1440 * ((n \div 1440) - len + k)))]

\* the monitor after n calls of Refresh whose reads all succeeded
Aged(n) ==
    /\ counter = n
    /\ lastMinuteTemperature = MinuteTable("temperatureReg", n)
    /\ lastHourTemperature = HourTable("temperatureReg", n)
    /\ lastDayTemperature = DayTable("temperatureReg", n)
    /\ lastMinuteVoltage = MinuteTable("voltageReg", n)
    /\ lastHourVoltage = HourTable("voltageReg", n)
    /\ lastDayVoltage = DayTable("voltageReg", n)
    /\ lastMinuteCharge = MinuteTable("batteryChargeReg", n)
    /\ lastHourCharge = HourTable("batteryChargeReg", n)
    /\ lastDayCharge = DayTable("batteryChargeReg", n)
    /\ piSugar = IF n = 0
                 THEN [temperature |-> 0, voltage |-> <<0, 1>>, charge |-> 0, power |-> FALSE]
                 ELSE [temperature |-> GoInt(avgInt(lastMinuteTemperature)),
                       voltage |-> avgFloat64(lastMinuteVoltage),
                       charge |-> GoInt(avgInt(lastMinuteCharge)),
                       power |-> PowerOf(DeviceBuf("powerReg", n))]
    /\ reads = [r \in {"temperatureReg", "voltageReg", "batteryChargeReg", "powerReg"} |->
                   IF n = 0 THEN [code |-> 0, buf |-> <<>>]
                   ELSE [code |-> 0, buf |-> DeviceBuf(r, n)]]

\* the execution contexts that may call I2cExchange at the same time
Ctxs == {1, 2}

\* a context that has not called yet: position, loop index, the register value
\* it loaded last, and for each buffer position filled, the write whose answer
\* it holds
CtxIdle == [pc |-> "idle", i |-> 0, reg |-> {}, got |-> <<>>]

\* the GPIO pins modelled: the bus's pins 2 and 3, and pin 4, which no bus uses
Pins == {2, 3, 4}

\* the state after package initialisation, with the control register cs, the
\* SPI divider register spi and the SoC-revision probe soc, and the monitor
\* after age calls of Refresh
InitAt(cs, spi, soc, age) ==
    /\ i2cMem = [r \in Regs |-> IF r = "csReg" THEN cs ELSE {}]
    /\ heap = [caller |-> <<>>, local |-> <<>>]
    /\ data = "caller"
    /\ i = 0
    /\ pc = "idle"
    /\ op = "none"
    /\ args = <<>>
    /\ pre = i2cMem
    /\ ret = "none"
    /\ log = <<>>
    /\ pinMode = [p \in Pins |-> IF p \in {2, 3} THEN "Input" ELSE "Output"]
    /\ spiMem = [clockDividerReg |-> spi]
    /\ bcm2711 = soc
    /\ i2cByteWaitMicroseconds = 0
    /\ ctx = [t \in Ctxs |-> CtxIdle]
    /\ txFifo = <<>>
    /\ rxFifo = <<>>
    /\ seen = {}
    /\ Aged(age)

InitWith(cs, spi, soc) == InitAt(cs, spi, soc, 0)

Init == InitWith({}, 0, FALSE)

Next ==
    \/ \E b \in Buffers : I2cExchange(b)
    \/ \E b \in Buffers : I2cTransmit(b)
    \/ \E n \in 0..MaxLen : I2cReceive(n)
    \/ ExchangeStep
    \/ HwStatus
    \/ HwFifoCleared

Spec == Init /\ [][Next]_vars

(***************************************************************************)
(* The configuration operations.  Each is one read-modify-write of the      *)
(* register window; the call record (op, args, pre, ret) keeps what was    *)
(* called and the window before the call.                                  *)
(***************************************************************************)
\* a call that runs to completion in one step
Call(name, a, mem, r) ==
    /\ Idle
    /\ op' = name
    /\ args' = a
    /\ pre' = i2cMem
    /\ i2cMem' = mem
    /\ ret' = r
    /\ pc' = "returned"

ExchangeVars == <<heap, data, i, log>>

csMask == {0, 1}    \* const csMask = 3
cpol == {3}         \* const cpol = 1 << 3
cpha == {2}         \* const cpha = 1 << 2

\* the new field is OR-ed in without clearing the old one
I2cChipSelect_KeepsOldField(chip) ==
    /\ Call("I2cChipSelect", <<chip>>,
            [i2cMem EXCEPT !["csReg"] = @ \cup (Bits(chip) \cap csMask)],
            "none")
    /\ UNCHANGED <<ExchangeVars, NoCallVars>>

\* I2cChipSelect(chip uint8): i2cMem[csReg] = i2cMem[csReg]&^csMask | uint32(chip & csMask)
I2cChipSelect(chip) ==
    /\ Call("I2cChipSelect", <<chip>>,
            [i2cMem EXCEPT !["csReg"] = (@ \ csMask) \cup (Bits(chip) \cap csMask)],
            "none")
    /\ UNCHANGED <<ExchangeVars, NoCallVars>>

\* a range test that lets chip 3 through
I2cChipSelectPolarity_OffByOne(chip, polarity) ==
    /\ Call("I2cChipSelectPolarity", <<chip, polarity>>,
            IF chip > 3 THEN i2cMem
            ELSE [i2cMem EXCEPT !["csReg"] =
                     IF polarity = 0 THEN @ \ {21 + chip} ELSE @ \cup {21 + chip}],
            "none")
    /\ UNCHANGED <<ExchangeVars, NoCallVars>>

\* I2cChipSelectPolarity(chip uint8, polarity uint8)
I2cChipSelectPolarity(chip, polarity) ==
    /\ Call("I2cChipSelectPolarity", <<chip, polarity>>,
            IF chip > 2 THEN i2cMem
            ELSE LET cspol == {21 + chip}     \* uint32(1 << (21 + chip))
                 IN  [i2cMem EXCEPT !["csReg"] =
                         IF polarity = 0 THEN @ \ cspol ELSE @ \cup cspol],
            "none")
    /\ UNCHANGED <<ExchangeVars, NoCallVars>>

\* the phase test reads the polarity argument
I2cMode_PhaseFromPolarity(polarity, phase) ==
    /\ Call("I2cMode", <<polarity, phase>>,
            LET afterPol == IF polarity = 0 THEN i2cMem["csReg"] \ cpol
                            ELSE i2cMem["csReg"] \cup cpol
            IN  [i2cMem EXCEPT !["csReg"] =
                    IF polarity = 0 THEN afterPol \ cpha ELSE afterPol \cup cpha],
            "none")
    /\ UNCHANGED <<ExchangeVars, NoCallVars>>

\* I2cMode(polarity uint8, phase uint8)
I2cMode(polarity, phase) ==
    /\ Call("I2cMode", <<polarity, phase>>,
            LET afterPol == IF polarity = 0 THEN i2cMem["csReg"] \ cpol
                            ELSE i2cMem["csReg"] \cup cpol
            IN  [i2cMem EXCEPT !["csReg"] =
                    IF phase = 0 THEN afterPol \ cpha ELSE afterPol \cup cpha],
            "none")
    /\ UNCHANGED <<ExchangeVars, NoCallVars>>

\* uint8 arguments tried
Chips == {0, 1, 2, 3, 4, 5, 255}
Levels == {0, 1, 2, 255}

\* control-register values the configuration calls start from
CtlInit == {{}, WordBits, {0, 3, 7, 18, 22}, {1, 2, 4, 5, 16, 21, 23, 31}}

InitCtl == \E cs \in CtlInit : InitWith(cs, 0, FALSE)

NextCtl ==
    \/ \E c \in Chips : I2cChipSelect(c)
    \/ \E c \in Chips, l \in Levels : I2cChipSelectPolarity(c, l)
    \/ \E l1 \in Levels, l2 \in Levels : I2cMode(l1, l2)

SpecCtl == InitCtl /\ [][NextCtl]_vars

(***************************************************************************)
(* Bus lifecycle and clock configuration.                                  *)
(***************************************************************************)
I2c0 == 0
I2c1 == 1
I2c2 == 2

\* every identifier resolves to the pin pair
getI2cPins_AnyDev(dev) == {2, 3}

\* getI2cPins(dev)
getI2cPins(dev) == IF dev = I2c1 THEN {2, 3} ELSE {}

\* pin.Mode(mode) for every pin of pins
SetPinModes(pins, mode) == [p \in DOMAIN pinMode |-> IF p \in pins THEN mode ELSE pinMode[p]]

\* the SoC revision is not probed
CoreFreq_Always250 == 250 * 1000000

\* coreFreq := 250 * 1000000; if isBCM2711() { coreFreq = 550 * 1000000 }
CoreFreq == IF bcm2711 THEN 550 * 1000000 ELSE 250 * 1000000

\* a mask that keeps the low bit: 1<<16 - 1
DivWord_KeepsLowBit(div) == div \cap (0..15)

\* div & divMask, divMask = 1<<16 - 1 - 1
DivWord(div) == div \cap (1..15)

\* setI2cDiv(div uint32): i2cMem[clkDivReg] = div & divMask
SetDivMem(mem, div) == [mem EXCEPT !["clkDivReg"] = DivWord(div)]

setI2cDiv(div) ==
    /\ Call("setI2cDiv", <<div>>, SetDivMem(i2cMem, div), "none")
    /\ UNCHANGED <<ExchangeVars, NoCallVars>>

\* uint32(q) of a 64-bit int q with -2^31 <= q < 2^31
U32(q) == IF q >= 0 THEN Bits(q) ELSE {31} \cup Bits((2147483647 + q) + 1)

\* Go's integer division truncates toward zero
GoDiv(a, b) == IF b > 0 THEN a \div b ELSE -(a \div (-b))

\* I2cSpeed(speed int): setI2cDiv(uint32(coreFreq / speed)); speed = 0 panics and is not called
I2cSpeed(speed) ==
    /\ speed # 0
    /\ Call("I2cSpeed", <<speed>>, SetDivMem(i2cMem, U32(GoDiv(CoreFreq, speed))), "none")
    /\ UNCHANGED <<ExchangeVars, NoCallVars>>

\* I2cEnd(dev): pin.Mode(Input) for the pins of dev
I2cEnd(dev) ==
    /\ Call("I2cEnd", <<dev>>, i2cMem, "none")
    /\ pinMode' = SetPinModes(getI2cPins(dev), "Input")
    /\ UNCHANGED <<ExchangeVars, spiMem, bcm2711, i2cByteWaitMicroseconds, ConcVars, MonVars>>

\* int64(float64(cdiv) / float64(coreFreq) * float64(1000000) * 9) for a 16-bit
\* cdiv: the quotient rounded down, but for the two dividers where the
\* double-precision product falls just below the integer
ByteWait(cdiv, coreFreq) ==
    LET exact == (cdiv * 9) \div (coreFreq \div 1000000)
    IN  IF coreFreq = 250 * 1000000 /\ cdiv \in {62250, 62750} THEN exact - 1 ELSE exact

\* I2cBegin(dev) that reads the register back without clearing it first
I2cBegin_NoReset(dev) ==
    /\ Idle
    /\ op' = "I2cBegin"
    /\ args' = <<dev>>
    /\ pre' = i2cMem
    /\ log' = <<Ev("reset", 0, {})>>
    /\ ret' = "none"
    /\ pc' = "beginCheck"
    /\ UNCHANGED <<i2cMem, heap, data, i, NoCallVars>>

\* I2cBegin(dev), up to the write: i2cMem[csReg] = 0
I2cBegin(dev) ==
    /\ Idle
    /\ op' = "I2cBegin"
    /\ args' = <<dev>>
    /\ pre' = i2cMem
    /\ i2cMem' = [i2cMem EXCEPT !["csReg"] = {}]
    /\ log' = <<Ev("reset", 0, {})>>
    /\ ret' = "none"
    /\ pc' = "beginCheck"
    /\ UNCHANGED <<heap, data, i, NoCallVars>>

\* the test of the read-back taken the other way round
BeginFails_WhenNonZero(readback) == readback # {}

\* if i2cMem[csReg] == 0 { return I2cMapError }
BeginFails(readback) == readback = {}

\* NewPiSugar(), up to I2cBegin's write: rpio.I2cBegin(rpio.I2c1)
NewPiSugar ==
    /\ Idle
    /\ op' = "NewPiSugar"
    /\ args' = <<I2c1>>
    /\ pre' = i2cMem
    /\ i2cMem' = [i2cMem EXCEPT !["csReg"] = {}]
    /\ log' = <<Ev("reset", 0, {})>>
    /\ ret' = "none"
    /\ pc' = "beginCheck"
    /\ UNCHANGED <<heap, data, i, NoCallVars>>

\* if err := rpio.I2cBegin(rpio.I2c1); err != nil { return nil, err }
\* return &piSugar, nil
NewPiSugarResult(err) == IF err # "nil" THEN <<"nil", err>> ELSE <<"&piSugar", "nil">>

\* what the running call returns when I2cBegin returns err
BeginResult(err) == IF op = "NewPiSugar" THEN NewPiSugarResult(err) ELSE err

\* I2cBegin(dev) that switches the pins before it tests the read-back
I2cBeginCheck_PinsFirst ==
    /\ pc = "beginCheck"
    /\ log' = Append(log, Ev("readback", 0, i2cMem["csReg"]))
    /\ pc' = "returned"
    /\ pinMode' = SetPinModes(getI2cPins(args[1]), "I2c")
    /\ IF BeginFails(i2cMem["csReg"])
       THEN /\ ret' = BeginResult(I2cMapError)
            /\ UNCHANGED <<i2cMem, i2cByteWaitMicroseconds>>
       ELSE /\ i2cByteWaitMicroseconds' = ByteWait(spiMem["clockDividerReg"], CoreFreq)
            /\ i2cMem' = SetDivMem(i2cMem, Bits(i2cClockDivider2500))
            /\ ret' = BeginResult("nil")
    /\ UNCHANGED <<heap, data, i, op, args, pre, spiMem, bcm2711, ConcVars, MonVars>>

\* I2cBegin(dev), from the read-back on
I2cBeginCheck ==
    /\ pc = "beginCheck"
    /\ log' = Append(log, Ev("readback", 0, i2cMem["csReg"]))
    /\ pc' = "returned"
    /\ IF BeginFails(i2cMem["csReg"])
       THEN /\ ret' = BeginResult(I2cMapError)
            /\ UNCHANGED <<i2cMem, pinMode, i2cByteWaitMicroseconds>>
       ELSE /\ pinMode' = SetPinModes(getI2cPins(args[1]), "I2c")
            /\ i2cByteWaitMicroseconds' = ByteWait(spiMem["clockDividerReg"], CoreFreq)
            /\ i2cMem' = SetDivMem(i2cMem, Bits(i2cClockDivider2500))
            /\ ret' = BeginResult("nil")
    /\ UNCHANGED <<heap, data, i, op, args, pre, spiMem, bcm2711, ConcVars, MonVars>>

\* the hardware between I2cBegin's write and its read-back
HwAfterReset == pc = "beginCheck" /\ HwStatus

Devs == {I2c0, I2c1, I2c2, 3}

\* requested dividers (uint32)
Divs == {Bits(0), Bits(1), Bits(2), Bits(3), Bits(2500), Bits(2501), Bits(65534),
         Bits(65535), Bits(65536), Bits(65537), Bits(131071), {31}, {0, 31}, WordBits}

\* requested speeds [Hz]
Speeds == {-1, 1, 3, 8000, 100000, 400000, 600000000}

\* values of the SPI divider register
SpiDivs == {0, 2500, 62250}

InitLife ==
    \E cs \in {{}, {0, 3, 7, 18, 22}}, spi \in SpiDivs, soc \in BOOLEAN :
        InitWith(cs, spi, soc)

NextLife ==
    \/ \E d \in Devs : I2cBegin(d)
    \/ NewPiSugar
    \/ I2cBeginCheck
    \/ HwAfterReset
    \/ \E d \in Devs : I2cEnd(d)
    \/ \E s \in Speeds : I2cSpeed(s)
    \/ \E d \in Divs : setI2cDiv(d)

SpecLife == InitLife /\ [][NextLife]_vars

(***************************************************************************)
(* I2cExchange called from several execution contexts at once.  The engine *)
(* takes no lock, so every register access of a call is a step of its own  *)
(* context and may fall between any two accesses of another context; a     *)
(* read-modify-write of the control register is a load followed by a       *)
(* store.  The device answers each byte written with one byte, kept here   *)
(* as the tag <<context, index>> of the write it answers.                  *)
(***************************************************************************)

\* the variables of the sequential engine other than the register window
SeqVars == <<heap, data, i, pc, op, args, pre, ret, log, pinMode, spiMem,
             bcm2711, i2cByteWaitMicroseconds, MonVars>>

\* len(data) of the call each context makes
CtxLen == <<2, 1>>

\* the status bits the device shows: room in the FIFO, an answer waiting,
\* nothing left to shift out
StatusC ==
    (IF Len(txFifo) < FIFOSize THEN txd ELSE {})
        \cup (IF rxFifo # <<>> THEN rxd ELSE {})
        \cup (IF txFifo = <<>> THEN done ELSE {})

\* i2cMem[csReg] as a context reads it
CsRead == (i2cMem["csReg"] \ StatusBits) \cup StatusC

\* context u has written a byte and has not passed its final done-wait
MidTransfer(u) ==
    \/ ctx[u].pc \in {"waitRxd", "readFifo"}
    \/ ctx[u].pc \in {"waitTxd", "writeFifo", "waitDone"} /\ ctx[u].i >= 1

Interfere(t, kind) ==
    IF \E u \in Ctxs \ {t} : MidTransfer(u) THEN seen \cup {kind} ELSE seen

\* for i := range data
LoopHeadC(t, k) == IF k < CtxLen[t] THEN "waitTxd" ELSE "waitDone"

\* the load half of i2cMem[csReg] |= ..., i2cMem[csReg] &= ...
LoadCs(t, from, to) ==
    /\ ctx[t].pc = from
    /\ ctx' = [ctx EXCEPT ![t].pc = to, ![t].reg = CsRead]
    /\ UNCHANGED <<i2cMem, txFifo, rxFifo, seen, SeqVars>>

\* the store half; the device ignores what is written to its status bits
StoreCs(t, from, to, val) ==
    /\ ctx[t].pc = from
    /\ i2cMem' = [i2cMem EXCEPT !["csReg"] = val \ StatusBits]
    /\ ctx' = [ctx EXCEPT ![t].pc = to]
    /\ UNCHANGED <<txFifo, rxFifo, SeqVars>>

\* a call that waits until no other call is running
I2cExchangeC_Locked(t) ==
    /\ ctx[t].pc = "idle"
    /\ \A u \in Ctxs \ {t} : ctx[u].pc \in {"idle", "returned"}
    /\ ctx' = [ctx EXCEPT ![t].pc = "clearLoad"]
    /\ UNCHANGED <<i2cMem, txFifo, rxFifo, seen, SeqVars>>

\* I2cExchange(data) entered by context t
I2cExchangeC(t) ==
    /\ ctx[t].pc = "idle"
    /\ ctx' = [ctx EXCEPT ![t].pc = "clearLoad"]
    /\ UNCHANGED <<i2cMem, txFifo, rxFifo, seen, SeqVars>>

\* clearI2cTxRxFifo(): i2cMem[csReg] |= clearTxRx
ClearFifoLoadC(t) == LoadCs(t, "clearLoad", "clearStore")

ClearFifoStoreC(t) ==
    /\ StoreCs(t, "clearStore", "setTALoad", ctx[t].reg \cup clearTxRx)
    /\ seen' = Interfere(t, "fifoCleared")

\* i2cMem[csReg] |= ta
SetTALoadC(t) == LoadCs(t, "setTALoad", "setTAStore")

SetTAStoreC(t) ==
    /\ StoreCs(t, "setTAStore", LoopHeadC(t, 0), ctx[t].reg \cup ta)
    /\ UNCHANGED seen

\* a wait loop left once the bit is read as set
WaitC(t, from, bit, to) ==
    /\ ctx[t].pc = from
    /\ bit \subseteq CsRead
    /\ ctx' = [ctx EXCEPT ![t].pc = to]
    /\ UNCHANGED <<i2cMem, txFifo, rxFifo, seen, SeqVars>>

\* for i2cMem[csReg]&txd == 0 {}
WaitTxdC(t) == WaitC(t, "waitTxd", txd, "writeFifo")

\* i2cMem[fifoReg] = uint32(data[i])
WriteFifoC(t) ==
    /\ ctx[t].pc = "writeFifo"
    /\ txFifo' = Append(txFifo, <<t, ctx[t].i>>)
    /\ ctx' = [ctx EXCEPT ![t].pc = "waitRxd"]
    /\ UNCHANGED <<i2cMem, rxFifo, seen, SeqVars>>

\* for i2cMem[csReg]&rxd == 0 {}
WaitRxdC(t) == WaitC(t, "waitRxd", rxd, "readFifo")

\* data[i] = byte(i2cMem[fifoReg]); a read of the empty FIFO answers no write
ReadFifoC(t) ==
    LET tag == IF rxFifo = <<>> THEN <<0, 0>> ELSE Head(rxFifo)
    IN  /\ ctx[t].pc = "readFifo"
        /\ rxFifo' = IF rxFifo = <<>> THEN <<>> ELSE Tail(rxFifo)
        /\ ctx' = [ctx EXCEPT ![t].got = Append(@, tag),
                              ![t].i = @ + 1,
                              ![t].pc = LoopHeadC(t, ctx[t].i + 1)]
        /\ seen' = IF tag[1] \in Ctxs \ {t} THEN seen \cup {"crossed"} ELSE seen
        /\ UNCHANGED <<i2cMem, txFifo, SeqVars>>

\* for i2cMem[csReg]&done == 0 {}
WaitDoneC(t) == WaitC(t, "waitDone", done, "clearTALoad")

\* i2cMem[csReg] &^= ta
ClearTALoadC(t) == LoadCs(t, "clearTALoad", "clearTAStore")

ClearTAStoreC(t) ==
    /\ StoreCs(t, "clearTAStore", "returned", ctx[t].reg \ ta)
    /\ seen' = Interfere(t, "taCleared")

\* the device shifts the next byte out and queues its answer, while a
\* transfer is active
HwShiftC ==
    /\ ta \subseteq i2cMem["csReg"]
    /\ txFifo # <<>>
    /\ txFifo' = Tail(txFifo)
    /\ rxFifo' = Append(rxFifo, Head(txFifo))
    /\ UNCHANGED <<i2cMem, ctx, seen, SeqVars>>

\* the device flushes both FIFOs and clears the clear-FIFO bits
HwFlushC ==
    /\ clearTxRx \cap i2cMem["csReg"] # {}
    /\ i2cMem' = [i2cMem EXCEPT !["csReg"] = @ \ clearTxRx]
    /\ txFifo' = <<>>
    /\ rxFifo' = <<>>
    /\ UNCHANGED <<ctx, seen, SeqVars>>

\* the next register access of context t, if it is not inside a wait loop
CtxAccess(t) ==
    \/ ClearFifoLoadC(t)
    \/ ClearFifoStoreC(t)
    \/ SetTALoadC(t)
    \/ SetTAStoreC(t)
    \/ WriteFifoC(t)
    \/ ReadFifoC(t)
    \/ ClearTALoadC(t)
    \/ ClearTAStoreC(t)

NextConc ==
    \/ \E t \in Ctxs : I2cExchangeC(t)
    \/ \E t \in Ctxs : ClearFifoLoadC(t)
    \/ \E t \in Ctxs : ClearFifoStoreC(t)
    \/ \E t \in Ctxs : SetTALoadC(t)
    \/ \E t \in Ctxs : SetTAStoreC(t)
    \/ \E t \in Ctxs : WaitTxdC(t)
    \/ \E t \in Ctxs : WriteFifoC(t)
    \/ \E t \in Ctxs : WaitRxdC(t)
    \/ \E t \in Ctxs : ReadFifoC(t)
    \/ \E t \in Ctxs : WaitDoneC(t)
    \/ \E t \in Ctxs : ClearTALoadC(t)
    \/ \E t \in Ctxs : ClearTAStoreC(t)
    \/ HwShiftC
    \/ HwFlushC

SpecConc == Init /\ [][NextConc]_vars

(***************************************************************************)
(* Refresh.                                                                *)
(***************************************************************************)

\* the histories Refresh is started from, as numbers of earlier calls
Ages == {0, 58, 118, 1438, 3658, 243358}

\* what I2cReadRegister(reg, buf, n) may give at the c-th Refresh: a non-zero
\* code, or code 0 and the register's bytes
ReadResults(reg, c) ==
    {[code |-> 1, buf |-> <<>>], [code |-> 0, buf |-> DeviceBuf(reg, c)]}
        \cup (IF reg = "temperatureReg" THEN {[code |-> 0, buf |-> <<0>>]} ELSE {})

Refresh ==
    /\ \E a \in Ages : counter - a \in 0..(MaxRefresh - 1)
    /\ counter' = counter + 1
    /\ \E rt \in ReadResults("temperatureReg", counter + 1),
          rv \in ReadResults("voltageReg", counter + 1),
          rc \in ReadResults("batteryChargeReg", counter + 1),
          rp \in ReadResults("powerReg", counter + 1) :
          LET c == counter + 1
              minuteT == IF rt.code = 0
                         THEN appendInt(lastMinuteTemperature, TemperatureOf(rt.buf), secondsInAMinute)
                         ELSE lastMinuteTemperature
              hourT == IF rt.code = 0 /\ c % 60 = 0
                       THEN appendFloat64(lastHourTemperature, avgInt(minuteT), minutesInAnHour)
                       ELSE lastHourTemperature
              dayT == IF rt.code = 0 /\ c % 60 = 0 /\ c % 1440 = 0
                      THEN appendFloat64(lastDayTemperature, avgFloat64(hourT), numberOfDays * hoursInADay)
                      ELSE lastDayTemperature
              minuteV == IF rv.code = 0
                         THEN appendFloat64(lastMinuteVoltage, VoltageOf(rv.buf), secondsInAMinute)
                         ELSE lastMinuteVoltage
              hourV == IF rv.code = 0 /\ c % 60 = 0
                       THEN appendFloat64(lastHourVoltage, avgFloat64(minuteV), minutesInAnHour)
                       ELSE lastHourVoltage
              dayV == IF rv.code = 0 /\ c % 60 = 0 /\ c % 1440 = 0
                      THEN appendFloat64(lastDayVoltage, avgFloat64(hourV), numberOfDays * hoursInADay)
                      ELSE lastDayVoltage
              minuteC == IF rc.code = 0
                         THEN appendInt(lastMinuteCharge, ChargeOf(rc.buf), secondsInAMinute)
                         ELSE lastMinuteCharge
              hourC == IF rc.code = 0 /\ c % 60 = 0
                       THEN appendFloat64(lastHourCharge, avgInt(minuteC), minutesInAnHour)
                       ELSE lastHourCharge
              dayC == IF rc.code = 0 /\ c % 60 = 0 /\ c % 1440 = 0
                      THEN appendFloat64(lastDayCharge, avgFloat64(hourC), numberOfDays * hoursInADay)
                      ELSE lastDayCharge
          IN  /\ lastMinuteTemperature' = minuteT
              /\ lastHourTemperature' = hourT
              /\ lastDayTemperature' = dayT
              /\ lastMinuteVoltage' = minuteV
              /\ lastHourVoltage' = hourV
              /\ lastDayVoltage' = dayV
              /\ lastMinuteCharge' = minuteC
              /\ lastHourCharge' = hourC
              /\ lastDayCharge' = dayC
              /\ piSugar' =
                    [temperature |-> IF rt.code = 0 THEN GoInt(avgInt(minuteT))
                                     ELSE piSugar.temperature,
                     voltage |-> IF rv.code = 0 THEN avgFloat64(minuteV) ELSE piSugar.voltage,
                     charge |-> IF rc.code = 0 THEN GoInt(avgInt(minuteC)) ELSE piSugar.charge,
                     power |-> IF rp.code = 0 THEN PowerOf(rp.buf) ELSE piSugar.power]
              /\ reads' = [temperatureReg |-> rt, voltageReg |-> rv,
                           batteryChargeReg |-> rc, powerReg |-> rp]
    /\ UNCHANGED <<i2cMem, heap, data, i, pc, op, args, pre, ret, log, pinMode, spiMem,
                   bcm2711, i2cByteWaitMicroseconds, ConcVars>>

InitMon == \E a \in Ages : InitAt({}, 0, FALSE, a)

NextMon == Refresh

SpecMon == InitMon /\ [][NextMon]_vars

(***************************************************************************)
(* Properties of the byte exchange.                                        *)
(***************************************************************************)
\* the FIFO accesses of the running call, in order
FifoLog == SelectSeq(log, LAMBDA e : e.k \in {"write", "read"})

Called == op \in {"I2cExchange", "I2cTransmit", "I2cReceive"}

\* the buffer the call's I2cExchange was given, as it was at the call
Entry == IF op = "I2cReceive" THEN Zeros(args[1]) ELSE args[1]

\* the low 8 bits of a word, by arithmetic
Low8(w) == Val(w \ {31}) % 256

\* the wait the code has reached is not over: the awaited bit is clear
Blocked ==
    \/ pc = "waitTxd" /\ i2cMem["csReg"] \cap txd = {}
    \/ pc = "waitRxd" /\ i2cMem["csReg"] \cap rxd = {}
    \/ pc = "waitDone" /\ i2cMem["csReg"] \cap done = {}

\* C1: one I2cExchange on a buffer of length N makes exactly N writes and N
\* reads of the data FIFO, strictly alternating write(0), read(0), write(1),
\* read(1), ...; each write directly follows an observation of the TXD bit
\* set and each read an observation of the RXD bit set, for the same index.
C1_AlternatingPerByte ==
    Called =>
        /\ \A j \in 1..Len(FifoLog) :
              /\ FifoLog[j].k = (IF j % 2 = 1 THEN "write" ELSE "read")
              /\ FifoLog[j].i = (j - 1) \div 2
        /\ \A j \in 1..Len(log) :
              /\ log[j].k = "write" =>
                    j > 1 /\ log[j - 1].k = "txd" /\ log[j - 1].i = log[j].i
              /\ log[j].k = "read" =>
                    j > 1 /\ log[j - 1].k = "rxd" /\ log[j - 1].i = log[j].i
        /\ Len(FifoLog) <= 2 * Len(Entry)
        /\ pc = "returned" => Len(FifoLog) = 2 * Len(Entry)

C1_Witness ==
    /\ op = "I2cExchange"
    /\ pc = "returned"
    /\ Len(Entry) = FIFOSize
    /\ Len(FifoLog) = 2 * FIFOSize

\* C2 (as claimed): an exchange of length 0 touches the data FIFO zero times
\* and does not wait on any hardware status bit before it returns.
C2_NoWaitAtAll ==
    (Called /\ Len(Entry) = 0) =>
        /\ \A j \in 1..Len(log) : log[j].k \in {"clearFifo", "setTA", "clearTA"}
        /\ ~Blocked

\* C2 (amended): an exchange of length 0 makes no FIFO write and no FIFO
\* read and waits on neither the TXD nor the RXD bit; its register accesses
\* are the FIFO clear, the transfer-active set, the wait for the done bit
\* and the transfer-active clear, in that order.
C2_ZeroLengthTouchesNoFifo ==
    (Called /\ Len(Entry) = 0) =>
        /\ pc \notin {"waitTxd", "writeFifo", "waitRxd", "readFifo"}
        /\ \A j \in 1..Len(log) : log[j].k \notin {"txd", "write", "rxd", "read"}
        /\ pc = "returned" =>
              [j \in 1..Len(log) |-> log[j].k] = <<"clearFifo", "setTA", "done", "clearTA">>

C2_Witness ==
    /\ op = "I2cExchange"
    /\ pc = "returned"
    /\ Len(Entry) = 0
    /\ Len(log) = 4

\* C3: the value written to the data FIFO at step i is the buffer's original
\* byte at position i, and from the read of step i on position i holds the
\* low 8 bits of the value read at step i; positions not read yet still hold
\* their original byte.
C3_SendsOriginalStoresLow8 ==
    Called =>
        /\ \A j \in 1..Len(log) :
              /\ log[j].k = "write" => log[j].v = Bits(Entry[log[j].i + 1])
              /\ log[j].k = "read" => Buf[log[j].i + 1] = Low8(log[j].v)
        /\ Len(Buf) = Len(Entry)
        /\ \A p \in 1..Len(Buf) :
              p > Len(FifoLog) \div 2 => Buf[p] = Entry[p]

C3_Witness ==
    /\ op = "I2cExchange"
    /\ pc = "returned"
    /\ Len(Entry) >= 2
    /\ \E j \in 1..Len(log) :
          /\ log[j].k = "read"
          /\ log[j].v \cap (8..31) # {}
          /\ Buf[log[j].i + 1] # Entry[log[j].i + 1]

\* C4: I2cTransmit never changes the caller's slice: during and after the
\* call it holds the bytes it was called with.
C4_TransmitKeepsCallerSlice ==
    op = "I2cTransmit" => heap["caller"] = args[1]

C4_Witness ==
    /\ op = "I2cTransmit"
    /\ pc = "returned"
    /\ Len(args[1]) >= 2
    /\ \A p \in 1..Len(args[1]) : heap["local"][p] # args[1][p]

\* C5: I2cReceive(n) returns a slice of length n whose position i is the
\* byte read from the data FIFO at step i, and every word written to the
\* data FIFO during the call is zero.
C5_ReceiveReturnsReadBytes ==
    op = "I2cReceive" =>
        /\ \A j \in 1..Len(log) : log[j].k = "write" => log[j].v = {}
        /\ pc = "returned" =>
              /\ Len(ret) = args[1]
              /\ \A p \in 1..args[1] :
                    \E j \in 1..Len(log) :
                        /\ log[j].k = "read"
                        /\ log[j].i = p - 1
                        /\ ret[p] = Low8(log[j].v)

C5_Witness ==
    /\ op = "I2cReceive"
    /\ pc = "returned"
    /\ args[1] >= 2
    /\ \E p \in 1..Len(ret) : ret[p] # 0

(***************************************************************************)
(* Properties of the bus lifecycle and of the configuration operations.    *)
(***************************************************************************)
\* what I2cBegin read back from the control register
ReadBack == log[2].v

BeginReturned == op = "I2cBegin" /\ pc = "returned"

\* C6: I2cBegin writes zero to the control register and re-reads it; a zero
\* read-back returns I2cMapError, any non-zero read-back returns no error.
C6_BeginZeroReadBackIsMapError ==
    BeginReturned =>
        /\ log[1] = Ev("reset", 0, {})
        /\ ReadBack = {} => ret = I2cMapError
        /\ ReadBack # {} => ret = "nil"

C6_Witness ==
    /\ BeginReturned
    /\ ReadBack # {}
    /\ ret = "nil"
    /\ args[1] = I2c1
    /\ pinMode[2] = "I2c"

\* C7 (as claimed): a non-zero read-back fails with the mapping error and a
\* zero read-back succeeds.
C7_NonZeroReadBackFails ==
    BeginReturned =>
        /\ ReadBack # {} => ret = I2cMapError
        /\ ReadBack = {} => ret = "nil"

\* C7 (amended): I2cBegin clears the control register to zero, so that until
\* the read-back only hardware-driven status bits can be set in it, and
\* re-reads it; it fails with the mapping error exactly when the read-back
\* is zero and succeeds otherwise.
C7_BeginFailsIffReadBackZero ==
    op = "I2cBegin" =>
        /\ pc = "beginCheck" => i2cMem["csReg"] \subseteq StatusBits
        /\ pc = "returned" =>
              /\ ret \in {I2cMapError, "nil"}
              /\ ret = I2cMapError <=> ReadBack = {}

C7_Witness ==
    /\ BeginReturned
    /\ pre["csReg"] # {}
    /\ ReadBack = {}
    /\ ret = I2cMapError

\* C8: I2cChipSelectPolarity(chip, polarity) with chip in 0..2 changes at
\* most bit 21+chip of the control register (clear when polarity = 0, set
\* otherwise) and leaves every other bit unchanged; with chip >= 3 the
\* control register is unchanged.  No other register is written.
C8_ChipSelectPolarityOneBit ==
    (op = "I2cChipSelectPolarity" /\ pc = "returned") =>
        LET chip == args[1]
            polarity == args[2]
            now == i2cMem["csReg"]
            was == pre["csReg"]
        IN  /\ \A r \in Regs \ {"csReg"} : i2cMem[r] = pre[r]
            /\ chip <= 2 =>
                  /\ now \ {21 + chip} = was \ {21 + chip}
                  /\ (21 + chip) \in now <=> polarity # 0
            /\ chip >= 3 => now = was

C8_Witness ==
    /\ op = "I2cChipSelectPolarity"
    /\ pc = "returned"
    /\ args = <<1, 255>>
    /\ 22 \notin pre["csReg"]
    /\ 22 \in i2cMem["csReg"]
    /\ 21 \in i2cMem["csReg"]
    /\ 23 \notin i2cMem["csReg"]

\* the 16-bit halves of a word, as numbers
Lo16(w) == Val(w \cap (0..15))
Hi16(w) == Val({k - 16 : k \in w \cap (16..31)})

\* p <= r + 1 for the numbers of the words p and r
AtMostOneAbove(p, r) ==
    \/ Hi16(p) < Hi16(r)
    \/ Hi16(p) = Hi16(r) /\ Lo16(p) <= Lo16(r) + 1
    \/ Hi16(p) = Hi16(r) + 1 /\ Lo16(p) = 0 /\ Lo16(r) = 65535

C10_ModeSetsBits2And3 ==
    (op = "I2cMode" /\ pc = "returned") =>
        /\ 3 \in i2cMem["csReg"] <=> args[1] # 0
        /\ 2 \in i2cMem["csReg"] <=> args[2] # 0
        /\ i2cMem["csReg"] \ {2, 3} = pre["csReg"] \ {2, 3}
        /\ \A r \in Regs \ {"csReg"} : i2cMem[r] = pre[r]

C10_ModeRepeatedIsNoChange ==
    \A l1 \in Levels, l2 \in Levels :
        (op = "I2cMode" /\ args = <<l1, l2>> /\ I2cMode(l1, l2)) => i2cMem' = i2cMem

C10_ModeRoundTrip == []C10_ModeSetsBits2And3 /\ [][C10_ModeRepeatedIsNoChange]_vars

C10_Witness ==
    /\ op = "I2cMode"
    /\ pc = "returned"
    /\ args = <<1, 1>>
    /\ pre["csReg"] \cap {2, 3} = {}
    /\ {0, 2, 3, 7, 22} \subseteq i2cMem["csReg"]

\* C11: I2cChipSelect(chip) makes the low 2-bit field of the control register
\* equal to chip mod 4 (values >= 4 wrap) and leaves every other bit of the
\* control register and every other register untouched.
C11_ChipSelectLowTwoBits ==
    (op = "I2cChipSelect" /\ pc = "returned") =>
        /\ Val(i2cMem["csReg"] \cap {0, 1}) = args[1] % 4
        /\ i2cMem["csReg"] \ {0, 1} = pre["csReg"] \ {0, 1}
        /\ \A r \in Regs \ {"csReg"} : i2cMem[r] = pre[r]

C11_Witness ==
    /\ op = "I2cChipSelect"
    /\ pc = "returned"
    /\ args = <<5>>
    /\ pre["csReg"] \cap {0, 1} = {1}
    /\ i2cMem["csReg"] \cap {0, 1} = {0}
    /\ {2, 4, 16, 21, 31} \subseteq i2cMem["csReg"]

\* C12: I2cEnd(dev) switches exactly the pins bound to dev (2 and 3 for I2c1,
\* none for any other identifier) to input mode, writes no register and
\* leaves the diagnostic wait value alone; a second I2cEnd(dev) right after
\* the first changes nothing.
C12_EndStep ==
    \A d \in Devs :
        I2cEnd(d) =>
            /\ i2cMem' = i2cMem
            /\ i2cByteWaitMicroseconds' = i2cByteWaitMicroseconds
            /\ \A p \in Pins :
                  pinMode'[p] = IF d = I2c1 /\ p \in {2, 3} THEN "Input" ELSE pinMode[p]

C12_EndTwice ==
    \A d \in Devs :
        (op = "I2cEnd" /\ args = <<d>> /\ pc = "returned" /\ I2cEnd(d)) =>
            /\ pinMode' = pinMode
            /\ i2cMem' = i2cMem

C12_EndSwitchesOnlyItsPins == [][C12_EndStep /\ C12_EndTwice]_vars

C12_Witness ==
    /\ op = "I2cEnd"
    /\ pc = "returned"
    /\ args = <<I2c1>>
    /\ i2cByteWaitMicroseconds > 0
    /\ pinMode = [p \in Pins |-> IF p = 4 THEN "Output" ELSE "Input"]
    /\ i2cMem = pre
    /\ i2cMem["clkDivReg"] = Bits(i2cClockDivider2500)

(***************************************************************************)
(* Properties of concurrent exchanges.                                     *)
(***************************************************************************)

\* context t holds, at some buffer position, the answer to another context's write
HoldsForeignByte(t) ==
    \E k \in 1..Len(ctx[t].got) : ctx[t].got[k][1] \in Ctxs \ {t}

\* C13: nothing orders the register accesses of two concurrent I2cExchange
\* calls: a context may enter while the other is inside its call, and its
\* next register access is possible wherever the other context stands; a byte
\* answering one context's write has been delivered to the other exactly when
\* some buffer holds a foreign answer.  (The corrupted transaction itself is
\* the state of C13_Witness.)
C13_NoMutualExclusion ==
    /\ \A t \in Ctxs :
          /\ ctx[t].pc = "idle" => ENABLED I2cExchangeC(t)
          /\ ctx[t].pc \in {"clearLoad", "clearStore", "setTALoad", "setTAStore",
                            "writeFifo", "readFifo", "clearTALoad", "clearTAStore"}
                => ENABLED CtxAccess(t)
    /\ ("crossed" \in seen) <=> (\E t \in Ctxs : HoldsForeignByte(t))

\* both kinds of interference of the claim in one run: the FIFOs were cleared
\* and the transfer-active bit was cleared under a call in mid-transfer, and
\* each context holds the answer to the other's write
C13_Witness ==
    /\ seen = {"fifoCleared", "taCleared", "crossed"}
    /\ \A t \in Ctxs : HoldsForeignByte(t)

(***************************************************************************)
(* Properties of the exchange as a state machine.                          *)
(***************************************************************************)

\* the positions of a call between setting and clearing transfer-active
Active == {"waitTxd", "writeFifo", "waitRxd", "readFifo", "waitDone", "clearTA"}

\* C14: a single-threaded exchange goes Idle -> clear FIFOs -> Active ->
\* Draining -> Idle: its first register access sets the clear-FIFO bits and
\* its second sets transfer-active; the bit stays set at every position from
\* there to its clearing, so every FIFO write and read happens under it; the
\* clearing is the last access and directly follows the observation of the
\* done bit; before a call's first access and after its return the bit is
\* clear.
C14_ExchangeStateMachine ==
    /\ pc \in Active => ta \subseteq i2cMem["csReg"]
    /\ pc \in {"idle", "clearFifo", "setTA", "return", "returned"}
          => ta \cap i2cMem["csReg"] = {}
    /\ pc = "clearFifo" => log = <<>>
    /\ Len(log) >= 1 => log[1] = Ev("clearFifo", 0, clearTxRx)
    /\ Len(log) >= 2 => log[2] = Ev("setTA", 0, ta)
    /\ \A j \in 1..Len(log) :
          /\ log[j].k \in {"write", "read", "txd", "rxd", "done"} => j > 2
          /\ log[j].k = "clearTA" => j = Len(log) /\ log[j - 1].k = "done"
          /\ log[j].k \in {"clearFifo", "setTA"} => j <= 2
    /\ pc \in {"return", "returned"} /\ Called => log[Len(log)].k = "clearTA"
    /\ pc \in Active \cup {"setTA"} => log[Len(log)].k # "clearTA"

C14_Witness ==
    /\ Called
    /\ pc = "returned"
    /\ Len(Buf) = 2
    /\ Len(log) = 12
    /\ log[11].k = "done"
    /\ log[12].k = "clearTA"
    /\ ta \cap i2cMem["csReg"] = {}

(***************************************************************************)
(* Termination of the exchange.  The three wait loops poll the control     *)
(* register without bound; the only assumption under which a call ends is  *)
(* fairness of the hardware: a bit a call waits for is eventually set, and *)
(* a loop that finds its bit set again and again eventually sees it.       *)
(***************************************************************************)

\* the buffers exchanged in the fair runs
FairBufs == {<<>>, <<165>>, <<1, 165>>}

\* the hardware sets the status bit the running call waits for
HwSetsAwaited ==
    /\ Blocked
    /\ HwStatus
    /\ ~Blocked'

\* the steps of a call that wait for nothing
Progress ==
    \/ clearI2cTxRxFifo
    \/ SetTA
    \/ WriteFifo
    \/ ReadFifo
    \/ ClearTA
    \/ Return

NextFair ==
    \/ \E b \in FairBufs : I2cExchange(b)
    \/ Progress
    \/ WaitTxd
    \/ WaitRxd
    \/ WaitDone
    \/ HwStatus
    \/ HwFifoCleared

SpecFair ==
    /\ Init
    /\ [][NextFair]_vars
    /\ WF_vars(Progress)
    /\ SF_vars(WaitTxd)
    /\ SF_vars(WaitRxd)
    /\ SF_vars(WaitDone)
    /\ WF_vars(HwSetsAwaited)

\* a wait loop is left only on reading its bit set, and what a call returns
\* is its result, never an error or a reason code
C15_OnlyThroughAwaitedBits ==
    /\ pc = "waitTxd" /\ pc' # "waitTxd" => txd \subseteq i2cMem["csReg"]
    /\ pc = "waitRxd" /\ pc' # "waitRxd" => rxd \subseteq i2cMem["csReg"]
    /\ pc = "waitDone" /\ pc' # "waitDone" => done \subseteq i2cMem["csReg"]
    /\ ret' # ret => ret' \in {"none", Result}

\* C15: under hardware fairness every I2cExchange call eventually returns;
\* a call leaves a wait loop only when the awaited bit is read set, so while
\* the bit stays clear the call has no step at all (it spins), and a call
\* never returns an error or a reason code.
C15_TerminatesOnlyByStatusBits ==
    /\ (pc = "clearFifo") ~> (pc = "returned")
    /\ [](Blocked => ~ENABLED (Progress \/ WaitTxd \/ WaitRxd \/ WaitDone))
    /\ [][C15_OnlyThroughAwaitedBits]_vars

C15_Witness ==
    /\ op = "I2cExchange"
    /\ pc = "returned"
    /\ args = <<<<1, 165>>>>
    /\ ret = "none"
    /\ Len(SelectSeq(log, LAMBDA e : e.k \in {"txd", "rxd", "done"})) = 5

(***************************************************************************)
(* Properties of the clock divider and of I2cBegin.                        *)
(***************************************************************************)

\* the divider I2cSpeed(hz) requests, hz > 0
SpeedDivider(hz) == (IF bcm2711 THEN 550000000 ELSE 250000000) \div hz

C17_BeginProgramsHundredKHz ==
    (BeginReturned /\ ret = "nil") =>
        Val(i2cMem["clkDivReg"]) = SpeedDivider(100000) - (SpeedDivider(100000) % 2)

(***************************************************************************)
(* The status-register masks the source declares, and the register and     *)
(* masks the wait loops of I2cExchange poll.                               *)
(***************************************************************************)
statusRXContainsData == {5}     \* 0x00000020
statusTXAcceptsData == {4}      \* 0x00000010
statusTransferDone == {1}       \* 0x00000002

\* the register named by statusReg, and the one the wait loops read
StatusRegister == "statusReg"
PolledRegister == "csReg"

\* C18 (as claimed): the wait before each FIFO write tests the declared
\* TX-accepts-data mask (0x10), the wait before each FIFO read the declared
\* RX-contains-data mask (0x20) and the wait before clearing transfer-active
\* the declared transfer-done mask (0x02), all read from the status register.
C18_PollsDeclaredStatusMasks ==
    /\ \A j \in 1..Len(log) :
          /\ log[j].k = "txd" => log[j].v = statusTXAcceptsData
          /\ log[j].k = "rxd" => log[j].v = statusRXContainsData
          /\ log[j].k = "done" => log[j].v = statusTransferDone
    /\ (\E j \in 1..Len(log) : log[j].k \in {"txd", "rxd", "done"})
          => PolledRegister = StatusRegister

\* a call of I2cBegin, direct or through NewPiSugar, has returned
BeginDone == op \in {"I2cBegin", "NewPiSugar"} /\ pc = "returned"

\* the return of a failed I2cBegin changes no pin, no register and not the
\* diagnostic wait value
C19_FailureStep ==
    (pc = "beginCheck" /\ pc' = "returned" /\ BeginFails(i2cMem["csReg"])) =>
        /\ pinMode' = pinMode
        /\ i2cMem' = i2cMem
        /\ i2cByteWaitMicroseconds' = i2cByteWaitMicroseconds

\* after a failed I2cBegin the register window is the one at the call with
\* the control register zeroed, the call made one write and one read-back
\* (no retry), and the caller gets the mapping error
C19_FailureState ==
    (BeginDone /\ ReadBack = {}) =>
        /\ i2cMem = [pre EXCEPT !["csReg"] = {}]
        /\ Len(log) = 2
        /\ op = "I2cBegin" => ret = I2cMapError
        /\ op = "NewPiSugar" => ret = <<"nil", I2cMapError>>

\* C19: when I2cBegin returns the mapping error its only effect is the zero
\* write to the control register: no pin mode, not the clock divider and not
\* the per-byte wait value change; NewPiSugar returns nil and that error, and
\* I2cBegin is not tried again.
C19_FailedBeginOnlyZeroesControl == []C19_FailureState /\ [][C19_FailureStep]_vars

C19_Witness ==
    /\ op = "NewPiSugar"
    /\ pc = "returned"
    /\ ret = <<"nil", I2cMapError>>
    /\ pre["csReg"] # {}
    /\ i2cMem["csReg"] = {}
    /\ pinMode[2] = "Input"
    /\ pinMode[3] = "Input"
    /\ i2cMem["clkDivReg"] = Bits(2)
    /\ i2cByteWaitMicroseconds = 0

(***************************************************************************)
(* Properties of the monitor's rolling histories.                          *)
(***************************************************************************)

\* table new is table old after one value was appended under capacity cap:
\* everything but the oldest element of a full table is kept, in order
RolledBy(old, new, cap) ==
    /\ Len(new) = Min(Len(old) + 1, cap)
    /\ SubSeq(new, 1, Len(new) - 1) = IF Len(old) = cap THEN Tail(old) ELSE old

\* the histories of one quantity over a Refresh whose read returned r
HistoryStep(r, value, minute, minuteNew, hour, hourNew, day, dayNew) ==
    IF r.code = 0
    THEN /\ RolledBy(minute, minuteNew, secondsInAMinute)
         /\ minuteNew[Len(minuteNew)] = value
         /\ IF counter' % 60 = 0
            THEN RolledBy(hour, hourNew, minutesInAnHour)
            ELSE hourNew = hour
         /\ IF counter' % 1440 = 0
            THEN RolledBy(day, dayNew, numberOfDays * hoursInADay)
            ELSE dayNew = day
    ELSE minuteNew = minute /\ hourNew = hour /\ dayNew = day

C20_RefreshStep ==
    counter' = counter + 1 =>
        /\ HistoryStep(reads'["temperatureReg"], reads'["temperatureReg"].buf[1] - 40,
                       lastMinuteTemperature, lastMinuteTemperature',
                       lastHourTemperature, lastHourTemperature',
                       lastDayTemperature, lastDayTemperature')
        /\ HistoryStep(reads'["voltageReg"], VoltageOf(reads'["voltageReg"].buf),
                       lastMinuteVoltage, lastMinuteVoltage',
                       lastHourVoltage, lastHourVoltage',
                       lastDayVoltage, lastDayVoltage')
        /\ HistoryStep(reads'["batteryChargeReg"], reads'["batteryChargeReg"].buf[1],
                       lastMinuteCharge, lastMinuteCharge',
                       lastHourCharge, lastHourCharge',
                       lastDayCharge, lastDayCharge')
        /\ reads'["temperatureReg"].code # 0 => piSugar'.temperature = piSugar.temperature
        /\ reads'["voltageReg"].code # 0 => piSugar'.voltage = piSugar.voltage
        /\ reads'["batteryChargeReg"].code # 0 => piSugar'.charge = piSugar.charge
        /\ reads'["powerReg"].code # 0 => piSugar'.power = piSugar.power

C20_WithinCapacity ==
    /\ Len(lastMinuteTemperature) <= 60 /\ Len(lastMinuteVoltage) <= 60
    /\ Len(lastMinuteCharge) <= 60
    /\ Len(lastHourTemperature) <= 60 /\ Len(lastHourVoltage) <= 60
    /\ Len(lastHourCharge) <= 60
    /\ Len(lastDayTemperature) <= 168 /\ Len(lastDayVoltage) <= 168
    /\ Len(lastDayCharge) <= 168

\* C20: whatever mix of successful and failed reads the Refresh calls see, no
\* history ever exceeds its capacity (60 samples, 60 per-minute averages, 168
\* per-hour averages); a successful read appends its sample as the newest
\* element, an append keeps all earlier elements in order except the oldest
\* one of a full history, and a read with a non-zero code leaves the
\* quantity's histories and its current value as they were.
C20_RollingHistories == []C20_WithinCapacity /\ [][C20_RefreshStep]_vars

\* the 243360th Refresh: every history is full, the temperature and charge
\* reads succeed and append to all three of their histories, the voltage
\* read fails
C20_Witness ==
    /\ counter = 243360
    /\ reads["temperatureReg"].code = 0
    /\ reads["batteryChargeReg"].code = 0
    /\ reads["voltageReg"].code # 0
    /\ Len(lastMinuteTemperature) = 60 /\ Len(lastMinuteVoltage) = 60 /\ Len(lastMinuteCharge) = 60
    /\ Len(lastHourTemperature) = 60 /\ Len(lastHourVoltage) = 60 /\ Len(lastHourCharge) = 60
    /\ Len(lastDayTemperature) = 168 /\ Len(lastDayVoltage) = 168 /\ Len(lastDayCharge) = 168
    /\ lastDayCharge[168] # lastDayCharge[167]
    /\ lastHourTemperature[60] # lastHourTemperature[59]

====
